---- MODULE Spec2Model ----
(***************************************************************************)
(* Model synchronisation engine of providers_clean:                        *)
(*   services/model_sync_service.py          (ModelSyncService)            *)
(*   infrastructure/repositories/supabase/available_models_repository.py   *)
(*                                                                         *)
(* The store (table available_models) is shared by every invocation; each  *)
(* repository call is one atomic store operation and the unit at which     *)
(* invocations interleave.  Inside one full_sync the two coroutines given  *)
(* to asyncio.gather contain no suspending await (the Supabase client is   *)
(* synchronous), so they run in argument order: the remote sub-sync, then  *)
(* the local sub-sync and the return.                                      *)
(*                                                                         *)
(* datetime.now() is the variable now: the latest timestamp handed out and *)
(* kept (as a start_time or in a row).  Reads are separated by store round *)
(* trips, so every timestamp that is kept is later than all earlier ones.  *)
(***************************************************************************)
EXTENDS Integers, FiniteSets, Sequences, TLC

VARIABLES
    store,      \* rows of table available_models
    now,        \* last value returned by datetime.now()
    cache,      \* memoised result of OpenRouterService.get_all_providers
    pc,         \* position of each full_sync invocation
    st,         \* locals of each full_sync invocation
    prev,       \* the operation that just returned, and what it returned
    faults,     \* fetch and store failures so far
    syncs,      \* full_sync invocations so far
    manuals,    \* manual operations so far
    configs,    \* rows of table model_config
    registry,   \* rows of table service_registry
    rsync,      \* the sync_registry_with_model_configs invocation
    env,        \* the deployment: credentials, timestamp format
    loop,       \* the background sync: global instance, its tasks, suspended stop calls
    uow,        \* the shared SupabaseUnitOfWork: its repositories and the tasks inside it
    reader,     \* a get_sync_status call between its reads
    requests    \* update_model_config requests between their two writes

\* the background loop, the unit of work and the requests under way
moreVars == <<loop, uow, reader, requests>>

vars == <<store, now, cache, pc, st, prev, faults, syncs, manuals,
          configs, registry, rsync, env, loop, uow, reader, requests>>

\* what the model synchronisation engine never touches
restVars == <<configs, registry, rsync, env, moreVars>>

----------------------------------------------------------------------------
(* Bounds *)

\* invocations (full_sync, manual operations) and raising calls in one
\* behaviour, counted together
MaxOps == 3

\* largest count a sub-report handed to the gather carries
MaxCount == 2

\* configurations stored when a deployment starts
MaxServices == 2

\* latest hour of the clock when a query is made
MaxHours == 4

\* max_age_hours the route GET /services/agents passes to should_sync
AGENTS_MAX_AGE_HOURS == 24

\* BackgroundModelSync._sync_interval_hours
_sync_interval_hours == 24

\* the delay before a retry, asyncio.sleep(3600), in hours
RETRY_DELAY_HOURS == 1

\* slots for concurrent full_sync invocations; an invocation takes the first
\* free slot
Procs == {1, 2}

NoCache == [hit |-> FALSE]

Cached(c) == [hit |-> TRUE, value |-> c]

----------------------------------------------------------------------------
(* Data *)

ModelString(provider, model_id) == provider \o ":" \o model_id

Raw(provider, model_id, display_name) ==
    [provider |-> provider, model_id |-> model_id, display_name |-> display_name]

\* "openai"/"gpt-4o" is listed under two display names; "ollama"/"llama3" is
\* also one of the fixed local models.
\* Listings the aggregator returns to a fresh fetch.
Catalogs ==
    { { Raw("anthropic", "claude-3", "Claude 3") },
      { Raw("openai", "gpt-4o", "GPT-4o"), Raw("anthropic", "claude-3", "Claude 3") },
      { Raw("openai", "gpt-4o", "GPT-4o (new)"), Raw("anthropic", "claude-3", "Claude 3"),
        Raw("ollama", "llama3", "Llama 3") } }

local_models ==
    { [provider |-> "ollama", model_id |-> "llama3",
       model_string |-> "ollama:llama3", display_name |-> "Llama 3 (Local)",
       source |-> "local"],
      [provider |-> "ollama", model_id |-> "mistral",
       model_string |-> "ollama:mistral", display_name |-> "Mistral (Local)",
       source |-> "local"],
      [provider |-> "ollama", model_id |-> "codellama",
       model_string |-> "ollama:codellama", display_name |-> "Code Llama (Local)",
       source |-> "local"],
      [provider |-> "ollama", model_id |-> "phi3",
       model_string |-> "ollama:phi3", display_name |-> "Phi-3 (Local)",
       source |-> "local"] }

_convert_provider_model_to_dict(model) ==
    [provider     |-> model.provider,
     model_id     |-> model.model_id,
     model_string |-> ModelString(model.provider, model.model_id),
     display_name |-> model.display_name,
     source       |-> "openrouter"]

\* dict.get(key, default)
Get(d, k, default) == IF k \in DOMAIN d THEN d[k] ELSE default

----------------------------------------------------------------------------
(* Store operations (SupabaseAvailableModelsRepository) *)

\* a formatted row that keeps no time of its own
formatted_model_undated(model_data, source, t) ==
    [provider     |-> model_data.provider,
     model_id     |-> model_data.model_id,
     model_string |-> model_data.model_string,
     display_name |-> model_data.display_name,
     source       |-> source,
     is_active    |-> TRUE,
     last_updated |-> 0]

formatted_model(model_data, source, t) ==
    [provider     |-> model_data.provider,
     model_id     |-> model_data.model_id,
     model_string |-> model_data.model_string,
     display_name |-> model_data.display_name,
     source       |-> source,
     is_active    |-> TRUE,
     last_updated |-> t]

\* a conflict target that also compares the display name
on_conflict_with_name(r, n) ==
    r.provider = n.provider /\ r.model_id = n.model_id
    /\ r.display_name = n.display_name

\* upsert(rows, on_conflict='provider,model_id')
on_conflict(r, n) == r.provider = n.provider /\ r.model_id = n.model_id

\* an insert that leaves a row already stored under the key as it is
upsert_ignoring_duplicates(s, rows) ==
    s \cup { n \in rows : \A r \in s : ~on_conflict(r, n) }

upsert(s, rows) ==
    { r \in s : \A n \in rows : ~on_conflict(r, n) } \cup rows

\* bulk_sync_models when the store accepts the statement: the new table and
\* the returned count
bulk_sync_models(s, models_data, source, t) ==
    LET formatted_models == { formatted_model(m, source, t) : m \in models_data }
    IN  [store |-> upsert(s, formatted_models),
         count |-> Cardinality(formatted_models)]

\* database function deactivate_models_not_in_sync(p_source, p_sync_time)
stale(r, p_source, p_sync_time) ==
    r.source = p_source /\ r.is_active /\ r.last_updated < p_sync_time

deactivate_models_not_in_sync(s, p_source, p_sync_time) ==
    [store |-> { IF stale(r, p_source, p_sync_time)
                 THEN [r EXCEPT !.is_active = FALSE] ELSE r : r \in s },
     count |-> Cardinality({ r \in s : stale(r, p_source, p_sync_time) })]

\* deactivate_stale_models when the store accepts the call
deactivate_stale_models(s, source, sync_time) ==
    deactivate_models_not_in_sync(s, source, sync_time)

\* set_model_active when the store accepts the statement
set_model_active(s, model_string, is_active, t) ==
    [store |-> { IF r.model_string = model_string
                 THEN [r EXCEPT !.is_active = is_active, !.last_updated = t]
                 ELSE r : r \in s },
     found |-> \E r \in s : r.model_string = model_string]

\* database function sync_model: single-row upsert on (provider, model_id)
sync_model(s, model_data, t) ==
    upsert(s, { formatted_model(model_data, model_data.source, t) })

ActiveStrings(s) == { r.model_string : r \in { x \in s : x.is_active } }

----------------------------------------------------------------------------
(* Reports (ModelSyncService) *)

NoResult == [status |-> "none"]

\* the sweep called with the time of the call
sweep_time_of_call(p) == now + 1

\* the argument sync_from_openrouter passes as sync_time to the sweep
sweep_sync_time(p) == st[p].start_time

\* the sweep called for the rows of the local source
sweep_source_local == "local"

\* the argument sync_from_openrouter passes as source to the sweep
sweep_source == "openrouter"

\* a success report that does not carry the count of the sweep
openrouter_success_uncounted(sync_count, deactivated_count) ==
    [status |-> "success", models_synced |-> sync_count,
     models_deactivated |-> 0]

openrouter_success(sync_count, deactivated_count) ==
    [status |-> "success", models_synced |-> sync_count,
     models_deactivated |-> deactivated_count]

openrouter_error ==
    [status |-> "error", models_synced |-> 0, models_deactivated |-> 0]

local_success(sync_count) == [status |-> "success", models_synced |-> sync_count]

local_error == [status |-> "error", models_synced |-> 0]

\* full_sync lines 248-264; a gather result that is an exception is the
\* record [exception |-> TRUE]
result_or_error(r) ==
    IF "exception" \in DOMAIN r
    THEN [status |-> "error", models_synced |-> 0]
    ELSE r

\* a combined status that one successful sub-report is enough for
combined_status_of_either(openrouter_result, local_result) ==
    IF Get(openrouter_result, "status", "none") = "success"
       \/ Get(local_result, "status", "none") = "success"
    THEN "success" ELSE "partial"

combined_status(openrouter_result, local_result) ==
    IF Get(openrouter_result, "status", "none") = "success"
       /\ Get(local_result, "status", "none") = "success"
    THEN "success" ELSE "partial"

combined_result(results0, results1) ==
    LET openrouter_result == result_or_error(results0)
        local_result      == result_or_error(results1)
    IN  [status |-> combined_status(openrouter_result, local_result),
         total_models_synced |-> Get(openrouter_result, "models_synced", 0)
                                 + Get(local_result, "models_synced", 0),
         models_deactivated |-> Get(openrouter_result, "models_deactivated", 0),
         openrouter_result |-> openrouter_result,
         local_result |-> local_result]

----------------------------------------------------------------------------
(* State *)

NoPrev == [valid |-> FALSE]

\* Bookkeeping of an invocation.  mode "solo": nothing has overlapped it so
\* far; "pair": exactly one other invocation has overlapped it, and that one
\* started alone; "none": anything else.  base is the table (without
\* timestamps) when the first invocation started, pred what returned just
\* before, raised the calls that raised, partner the other invocation of the
\* pair once it has returned.
NoHist == [mode |-> "none"]

Abs(s) ==
    { [provider |-> r.provider, model_id |-> r.model_id,
       model_string |-> r.model_string, display_name |-> r.display_name,
       source |-> r.source, is_active |-> r.is_active] : r \in s }

IdleLocals ==
    [start_time |-> 0, models_to_sync |-> {}, sync_count |-> 0,
     results0 |-> NoResult, hist |-> NoHist]

\* no registry synchronisation is running
IdleRsync == [pc |-> "idle"]

\* a deployment without credentials whose timestamps carry no UTC offset
NoEnv == [active_providers |-> {}, utc_offset |-> FALSE]

\* tables model_config and service_registry are empty
\* no background sync instance exists
IdleLoop ==
    [global |-> 0, insts |-> <<>>, tasks |-> <<>>, stops |-> {}, stopped |-> FALSE]

\* the unit of work outside every context: its repositories are None
IdleUow == [repositories |-> FALSE, _in_transaction |-> FALSE, inside |-> {}]

\* no get_sync_status call is under way
IdleReader == [pc |-> "idle"]

MoreInit ==
    /\ loop = IdleLoop
    /\ uow = IdleUow
    /\ reader = IdleReader
    /\ requests = {}

RestInit ==
    /\ configs = {}
    /\ registry = {}
    /\ rsync = IdleRsync
    /\ env = NoEnv
    /\ MoreInit

Init ==
    /\ store = {}
    /\ now = 0
    /\ cache = NoCache
    /\ pc = [p \in Procs |-> "idle"]
    /\ st = [p \in Procs |-> IdleLocals]
    /\ prev = NoPrev
    /\ faults = 0
    /\ syncs = 0
    /\ manuals = 0
    /\ RestInit

Running(p) == pc[p] # "idle"

\* one more full_sync is invoked
Spent == syncs + manuals + faults

InvokeSync ==
    /\ Spent < MaxOps
    /\ syncs' = syncs + 1
    /\ UNCHANGED manuals

\* one more manual operation is invoked
InvokeManual ==
    /\ Spent < MaxOps
    /\ manuals' = manuals + 1
    /\ UNCHANGED syncs

\* a fetch or store call of this step raises
Fault(raises, invoked) ==
    /\ raises => Spent + invoked < MaxOps
    /\ faults' = IF raises THEN faults + 1 ELSE faults

\* a manual operation overlaps every running invocation
Disturb(locals) == [q \in Procs |-> [locals[q] EXCEPT !.hist = NoHist]]

Paired(base, raised) ==
    [mode |-> "pair", base |-> base, raised |-> raised, partner |-> NoPrev]

\* invocation p starts: a running solo invocation becomes one of a pair
Overlap(locals, p) ==
    [q \in Procs |->
        IF q = p \/ ~Running(q) THEN locals[q]
        ELSE [locals[q] EXCEPT !.hist =
                 IF @.mode = "solo" THEN Paired(@.base, @.raised) ELSE NoHist]]

\* invocation p returns: its partner learns what it synced
Returned(locals, p) ==
    [q \in Procs |->
        IF q = p THEN IdleLocals
        ELSE IF Running(q) /\ locals[q].hist.mode = "pair"
                /\ locals[p].hist.mode = "pair"
             THEN [locals[q] EXCEPT !.hist.partner =
                      [valid |-> TRUE,
                       models_to_sync |-> locals[p].models_to_sync,
                       raised |-> locals[p].hist.raised]]
             ELSE locals[q]]

Raised(h, site, raises) ==
    IF h.mode # "none" /\ raises THEN [h EXCEPT !.raised = @ \cup {site}] ELSE h

\* the record of the operation that returned last, without its predecessor
Last(r) ==
    IF Get(r, "op", "none") = "full_sync" /\ r.hist.mode = "solo"
    THEN [r EXCEPT !.hist.pred = NoPrev] ELSE r

----------------------------------------------------------------------------
(* OpenRouterService.get_all_providers behind its cache *)

\* what the cache holds once force_refresh has been honoured
cache_after_clear(force_refresh) == IF force_refresh THEN NoCache ELSE cache

----------------------------------------------------------------------------
(* full_sync(force_refresh), one invocation p *)

\* full_sync entry and sync_from_openrouter up to its first store call:
\* start_time, the fetch, the conversion.  upstream is what the aggregator
\* lists at that moment.
full_sync_start(p, force_refresh, upstream, fetch_raises) ==
    /\ pc[p] = "idle"
    /\ \A q \in Procs : q < p => Running(q)
    /\ InvokeSync
    /\ now' = now + 1
    /\ LET c0    == cache_after_clear(force_refresh)
           alone == \A q \in Procs \ {p} : ~Running(q)
           raises == ~c0.hit /\ fetch_raises
           fresh == [mode |-> "solo", pred |-> Last(prev),
                     force_refresh |-> force_refresh,
                     raised |-> IF raises THEN {"fetch"} ELSE {},
                     base |-> Abs(store)]
           hist  == IF alone THEN fresh
                    ELSE IF \E q \in Procs \ {p} : st[q].hist.mode = "solo"
                    THEN LET q == CHOOSE q \in Procs \ {p} : st[q].hist.mode = "solo"
                         IN  Paired(st[q].hist.base, fresh.raised)
                    ELSE NoHist
           base  == [IdleLocals EXCEPT !.start_time = now + 1, !.hist = hist]
       IN  /\ Fault(raises, 1)
           /\ IF raises
              THEN \* get_all_providers raises: the outer except of
                   \* sync_from_openrouter returns the error report
                   /\ cache' = NoCache
                   /\ st' = Overlap([st EXCEPT ![p] =
                               [base EXCEPT !.results0 = openrouter_error]], p)
                   /\ pc' = [pc EXCEPT ![p] = "l_upsert"]
              ELSE LET all_providers  == IF c0.hit THEN c0.value ELSE upstream
                       models_to_sync ==
                           { _convert_provider_model_to_dict(m) : m \in all_providers }
                   IN  /\ cache' = Cached(all_providers)
                       /\ st' = Overlap([st EXCEPT ![p] =
                                   [base EXCEPT !.models_to_sync = models_to_sync]], p)
                       \* bulk_sync_models returns 0 for an empty list without
                       \* a store call
                       /\ pc' = [pc EXCEPT ![p] =
                                   IF models_to_sync = {} THEN "r_sweep" ELSE "r_upsert"]
    /\ prev' = NoPrev
    /\ UNCHANGED store
    /\ UNCHANGED restVars

\* sync_from_openrouter: await bulk_sync_models(models_to_sync, 'openrouter').
\* A store exception is caught inside bulk_sync_models, which returns 0.
remote_upsert(p, store_raises) ==
    /\ pc[p] = "r_upsert"
    /\ Fault(store_raises, 0)
    /\ LET res == bulk_sync_models(store, st[p].models_to_sync, "openrouter", now + 1)
       IN  /\ store' = IF store_raises THEN store ELSE res.store
           /\ now' = IF store_raises THEN now ELSE now + 1
           /\ st' = [st EXCEPT
                        ![p].sync_count = IF store_raises THEN 0 ELSE res.count,
                        ![p].hist = Raised(@, "upsert", store_raises)]
    /\ pc' = [pc EXCEPT ![p] = "r_sweep"]
    /\ prev' = NoPrev
    /\ UNCHANGED <<cache, syncs, manuals>>
    /\ UNCHANGED restVars

\* sync_from_openrouter: await deactivate_stale_models('openrouter', start_time)
\* and the success report.  A store exception is caught inside
\* deactivate_stale_models, which returns 0.
remote_sweep(p, store_raises) ==
    /\ pc[p] = "r_sweep"
    /\ Fault(store_raises, 0)
    /\ LET res == deactivate_stale_models(store, sweep_source, sweep_sync_time(p))
           deactivated_count == IF store_raises THEN 0 ELSE res.count
       IN  /\ store' = IF store_raises THEN store ELSE res.store
           /\ st' = [st EXCEPT
                        ![p].results0 =
                            openrouter_success(st[p].sync_count, deactivated_count),
                        ![p].hist = Raised(@, "sweep", store_raises)]
    /\ pc' = [pc EXCEPT ![p] = "l_upsert"]
    /\ prev' = NoPrev
    /\ UNCHANGED <<now, cache, syncs, manuals>>
    /\ UNCHANGED restVars

\* sync_local_models: await bulk_sync_models(local_models, 'local') and the
\* success report; then full_sync after the gather: the combined report is
\* returned.  A store exception is caught inside bulk_sync_models, which
\* returns 0.
local_upsert(p, store_raises) ==
    /\ pc[p] = "l_upsert"
    /\ Fault(store_raises, 0)
    /\ LET res == bulk_sync_models(store, local_models, "local", now + 1)
           sync_count == IF store_raises THEN 0 ELSE res.count
           results0 == st[p].results0
           results1 == local_success(sync_count)
       IN  /\ store' = IF store_raises THEN store ELSE res.store
           /\ now' = IF store_raises THEN now ELSE now + 1
           /\ prev' = [valid |-> TRUE, op |-> "full_sync",
                       results |-> <<results0, results1>>,
                       combined |-> combined_result(results0, results1),
                       models_to_sync |-> st[p].models_to_sync,
                       active |-> ActiveStrings(store'),
                       hist |-> Raised(st[p].hist, "local", store_raises)]
           /\ st' = Returned([st EXCEPT ![p].hist =
                                 Raised(@, "local", store_raises)], p)
    /\ pc' = [pc EXCEPT ![p] = "idle"]
    /\ UNCHANGED <<cache, syncs, manuals>>
    /\ UNCHANGED restVars

----------------------------------------------------------------------------
(* Manual operations *)

ManualTargets == {"openai:gpt-4o"}

\* a route that answers 200 whatever reactivate_model returned
activate_model_always_ok(result) == [code |-> 200, status |-> "success"]

\* route POST /models/{model_string}/activate: the response for the value
\* reactivate_model returned
activate_model(result) ==
    IF result THEN [code |-> 200, status |-> "success"] ELSE [code |-> 404]

\* deactivate_model / reactivate_model: one set_model_active call; a store
\* exception is caught inside set_model_active, which returns False.
flip_model(op, model_string, is_active, store_raises) ==
    /\ InvokeManual
    /\ Fault(store_raises, 1)
    /\ LET res == set_model_active(store, model_string, is_active, now + 1)
           result == IF store_raises THEN FALSE ELSE res.found
       IN  /\ store' = IF result THEN res.store ELSE store
           /\ now' = IF result THEN now + 1 ELSE now
           /\ prev' = [valid |-> TRUE, op |-> op, model_string |-> model_string,
                       is_active |-> is_active, result |-> result,
                       response |-> activate_model(result)]
    /\ st' = Disturb(st)
    /\ UNCHANGED <<cache, pc>>
    /\ UNCHANGED restVars

deactivate_model(model_string, store_raises) ==
    flip_model("deactivate_model", model_string, FALSE, store_raises)

reactivate_model(model_string, store_raises) ==
    flip_model("reactivate_model", model_string, TRUE, store_raises)

\* manually_add_model: one sync_model call; an exception is caught and
\* False returned.
manually_add_model(provider, model_id, display_name, store_raises) ==
    /\ InvokeManual
    /\ Fault(store_raises, 1)
    /\ LET model_data == [provider |-> provider, model_id |-> model_id,
                          model_string |-> ModelString(provider, model_id),
                          display_name |-> display_name, source |-> "manual"]
       IN  /\ store' = IF store_raises THEN store
                       ELSE sync_model(store, model_data, now + 1)
           /\ now' = IF store_raises THEN now ELSE now + 1
           /\ prev' = [valid |-> TRUE, op |-> "manually_add_model",
                       model_string |-> model_data.model_string,
                       display_name |-> display_name,
                       result |-> ~store_raises]
    /\ st' = Disturb(st)
    /\ UNCHANGED <<cache, pc>>
    /\ UNCHANGED restVars

----------------------------------------------------------------------------

Next ==
    \/ \E p \in Procs, f \in BOOLEAN, c \in Catalogs, x \in BOOLEAN :
          full_sync_start(p, f, c, x)
    \/ \E p \in Procs, x \in BOOLEAN : remote_upsert(p, x)
    \/ \E p \in Procs, x \in BOOLEAN : remote_sweep(p, x)
    \/ \E p \in Procs, x \in BOOLEAN : local_upsert(p, x)
    \/ \E m \in ManualTargets, x \in BOOLEAN : deactivate_model(m, x)
    \/ \E m \in ManualTargets, x \in BOOLEAN : reactivate_model(m, x)
    \/ \E x \in BOOLEAN : manually_add_model("openai", "gpt-4o", "GPT-4o (manual)", x)

Spec == Init /\ [][Next]_vars

----------------------------------------------------------------------------
(* full_sync after the gather, for every pair of gathered results *)

\* what the gather can hand back for each sub-sync: a report or an exception
RemoteOutcomes ==
    {[exception |-> TRUE], openrouter_error}
    \cup { openrouter_success(n, d) : n \in 0..MaxCount, d \in 0..MaxCount }

LocalOutcomes ==
    {[exception |-> TRUE], local_error}
    \cup { local_success(n) : n \in 0..MaxCount }

Gathered(results0, results1) ==
    [start_time |-> 0, models_to_sync |-> {}, sync_count |-> 0,
     results0 |-> results0, results1 |-> results1, hist |-> NoHist]

InitMerge ==
    /\ store = {}
    /\ now = 0
    /\ cache = NoCache
    /\ pc = [p \in Procs |-> IF p = 1 THEN "gathered" ELSE "idle"]
    /\ \E r0 \in RemoteOutcomes, r1 \in LocalOutcomes :
          st = [p \in Procs |-> IF p = 1 THEN Gathered(r0, r1) ELSE IdleLocals]
    /\ prev = NoPrev
    /\ faults = 0
    /\ syncs = 1
    /\ manuals = 0
    /\ RestInit

\* full_sync lines 248-271: the combined report is built and returned
full_sync_return(p) ==
    /\ pc[p] = "gathered"
    /\ prev' = [valid |-> TRUE, op |-> "full_sync",
                results |-> <<st[p].results0, st[p].results1>>,
                combined |-> combined_result(st[p].results0, st[p].results1),
                models_to_sync |-> st[p].models_to_sync,
                active |-> ActiveStrings(store),
                hist |-> st[p].hist]
    /\ st' = [st EXCEPT ![p] = IdleLocals]
    /\ pc' = [pc EXCEPT ![p] = "idle"]
    /\ UNCHANGED <<store, now, cache, faults, syncs, manuals>>
    /\ UNCHANGED restVars

NextMerge == \E p \in Procs : full_sync_return(p)

SpecMerge == InitMerge /\ [][NextMerge]_vars

----------------------------------------------------------------------------
(* Text.  A Python str is the sequence of its characters. *)

\* "rag_agent"
name_rag_agent == <<"r", "a", "g", "_", "a", "g", "e", "n", "t">>

\* "agent_docs"
name_agent_docs == <<"a", "g", "e", "n", "t", "_", "d", "o", "c", "s">>

\* "embedding_agent"
name_embedding_agent ==
    <<"e", "m", "b", "e", "d", "d", "i", "n", "g", "_", "a", "g", "e", "n",
      "t">>

\* "embeddings"
name_embeddings == <<"e", "m", "b", "e", "d", "d", "i", "n", "g", "s">>

\* "crawler"
name_crawler == <<"c", "r", "a", "w", "l", "e", "r">>

\* "agents"
name_agents == <<"a", "g", "e", "n", "t", "s">>

\* "openai:gpt-4o"
model_gpt_4o ==
    <<"o", "p", "e", "n", "a", "i", ":", "g", "p", "t", "-", "4", "o">>

\* "openai:text-embedding-3-small"
model_embedding_3 ==
    <<"o", "p", "e", "n", "a", "i", ":", "t", "e", "x", "t", "-", "e", "m",
      "b", "e", "d", "d", "i", "n", "g", "-", "3", "-", "s", "m", "a", "l",
      "l">>

\* "gpt-4o"
model_no_provider == <<"g", "p", "t", "-", "4", "o">>

\* "acme:gpt"
model_unknown_provider == <<"a", "c", "m", "e", ":", "g", "p", "t">>

\* ModelConfigService.VALID_PROVIDERS
VALID_PROVIDERS ==
    { <<"o", "p", "e", "n", "a", "i">>,
      <<"a", "n", "t", "h", "r", "o", "p", "i", "c">>,
      <<"g", "o", "o", "g", "l", "e">>,
      <<"g", "r", "o", "q">>,
      <<"m", "i", "s", "t", "r", "a", "l">>,
      <<"c", "o", "h", "e", "r", "e">>,
      <<"a", "i", "2", "1">>,
      <<"r", "e", "p", "l", "i", "c", "a", "t", "e">>,
      <<"t", "o", "g", "e", "t", "h", "e", "r">>,
      <<"f", "i", "r", "e", "w", "o", "r", "k", "s">>,
      <<"o", "p", "e", "n", "r", "o", "u", "t", "e", "r">>,
      <<"d", "e", "e", "p", "s", "e", "e", "k">>,
      <<"x", "a", "i">>,
      <<"o", "l", "l", "a", "m", "a">> }

\* s.endswith(suffix)
endswith(s, suffix) ==
    /\ Len(s) >= Len(suffix)
    /\ SubSeq(s, Len(s) - Len(suffix) + 1, Len(s)) = suffix

\* s.startswith(prefix)
startswith(s, prefix) ==
    /\ Len(s) >= Len(prefix)
    /\ SubSeq(s, 1, Len(prefix)) = prefix

\* sub in s
contains(s, sub) ==
    \E i \in 1..(Len(s) - Len(sub) + 1) : SubSeq(s, i, i + Len(sub) - 1) = sub

\* s.split(':', 1)[0]
split_head(s) ==
    IF contains(s, <<":">>)
    THEN LET i == CHOOSE i \in 1..Len(s) :
                     s[i] = ":" /\ \A j \in 1..(i - 1) : s[j] # ":"
         IN  SubSeq(s, 1, i - 1)
    ELSE s

\* validate_model_string: TRUE when it returns, FALSE when it raises
\* ValueError
validate_model_string(model_string) ==
    /\ contains(model_string, <<":">>)
    /\ split_head(model_string) \in VALID_PROVIDERS

----------------------------------------------------------------------------
(* Tables model_config and service_registry *)

\* get_config: the stored rows of a service (at most one)
get_config(cfgs, service_name) == { c \in cfgs : c.service_name = service_name }

\* save_config: update the row of the service, or insert one
save_config(cfgs, service_name, model_string) ==
    { c \in cfgs : c.service_name # service_name }
    \cup { [service_name |-> service_name, model_string |-> model_string] }

\* delete_config: the new table and whether a row was deleted
delete_config(cfgs, service_name) ==
    [configs |-> { c \in cfgs : c.service_name # service_name },
     deleted |-> get_config(cfgs, service_name) # {}]

\* get_service: the registry rows of a service (at most one)
get_service(reg, service_name) == { r \in reg : r.service_name = service_name }

\* view unregistered_services: configured services without a registry entry
unregistered_services(cfgs, reg) ==
    { c \in cfgs : get_service(reg, c.service_name) = {} }

\* database function register_service: insert, or update by service_name
register_service(reg, service_data) ==
    { r \in reg : r.service_name # service_data.service_name }
    \cup { service_data }

\* update_service_metadata with {"default_model": model_string}: the new
\* table and whether a row was updated
update_service_metadata(reg, service_name, model_string) ==
    [registry |-> { IF r.service_name = service_name
                    THEN [r EXCEPT !.default_model = model_string]
                    ELSE r : r \in reg },
     updated |-> get_service(reg, service_name) # {}]

----------------------------------------------------------------------------
(* ServiceRegistryService.sync_registry_with_model_configs *)

text_agent_suffix == <<"_", "a", "g", "e", "n", "t">>

text_agent_prefix == <<"a", "g", "e", "n", "t", "_">>

text_embedding == <<"e", "m", "b", "e", "d", "d", "i", "n", "g">>

\* a heuristic that looks for an embedding before it looks for an agent
ServiceRegistration_embedding_first(service_info) ==
    LET service_name == service_info.service_name
        model_string == service_info.model_string
        is_agent == endswith(service_name, text_agent_suffix)
                    \/ startswith(service_name, text_agent_prefix)
        is_embedding == contains(service_name, text_embedding)
                        \/ contains(model_string, text_embedding)
        kind == IF is_embedding THEN "embedding"
                ELSE IF is_agent THEN "agent" ELSE "backend"
    IN  [service_name |-> service_name,
         category |-> IF kind = "agent" THEN "agent" ELSE "service",
         service_type |-> IF kind = "agent" THEN "pydantic_ai"
                          ELSE IF kind = "embedding" THEN "embedding_service"
                          ELSE "backend_service",
         model_type |-> IF kind = "embedding" THEN "embedding" ELSE "llm",
         location |-> IF kind = "agent" THEN "agents_server" ELSE "main_server",
         supports_temperature |-> kind # "embedding",
         supports_max_tokens |-> kind # "embedding",
         default_model |-> model_string,
         cost_profile |-> "medium",
         owner_team |-> "auto-discovered"]

\* lines 396-443: the registration built for an unregistered service
ServiceRegistration(service_info) ==
    LET service_name == service_info.service_name
        model_string == service_info.model_string
        is_agent == endswith(service_name, text_agent_suffix)
                    \/ startswith(service_name, text_agent_prefix)
        is_embedding == contains(service_name, text_embedding)
                        \/ contains(model_string, text_embedding)
        kind == IF is_agent THEN "agent"
                ELSE IF is_embedding THEN "embedding" ELSE "backend"
    IN  [service_name |-> service_name,
         category |-> IF kind = "agent" THEN "agent" ELSE "service",
         service_type |-> IF kind = "agent" THEN "pydantic_ai"
                          ELSE IF kind = "embedding" THEN "embedding_service"
                          ELSE "backend_service",
         model_type |-> IF kind = "embedding" THEN "embedding" ELSE "llm",
         location |-> IF kind = "agent" THEN "agents_server" ELSE "main_server",
         supports_temperature |-> kind # "embedding",
         supports_max_tokens |-> kind # "embedding",
         default_model |-> model_string,
         cost_profile |-> "medium",
         owner_team |-> "auto-discovered"]

\* lines 451-456: the report of a pass
registry_report(unregistered, registered_count) ==
    [status |-> "success",
     services_discovered |-> Cardinality(unregistered),
     services_registered |-> registered_count]

----------------------------------------------------------------------------
(* ModelConfigService and the route POST /models/config *)

model_gpt_4o_mini ==
    <<"o", "p", "e", "n", "a", "i", ":", "g", "p", "t", "-", "4", "o", "-",
      "m", "i", "n", "i">>

\* DEFAULT_MODELS.get(service_name, "openai:gpt-4o-mini")
DEFAULT_MODELS_get(service_name) ==
    IF service_name = name_embeddings THEN model_embedding_3
    ELSE model_gpt_4o_mini

\* get_model_config: what the call returns
get_model_config_result(cfgs, service_name) ==
    LET config == get_config(cfgs, service_name)
    IN  IF config # {}
        THEN [raised |-> "none", config |-> CHOOSE c \in config : TRUE]
        ELSE [raised |-> "none",
              config |-> [service_name |-> service_name,
                          model_string |-> DEFAULT_MODELS_get(service_name)]]

\* a route that lets a failure of the registry update fail the request
post_model_config_strict(valid, save_raises, registry_raises, saved) ==
    IF ~valid THEN [code |-> 400]
    ELSE IF save_raises \/ registry_raises THEN [code |-> 500]
    ELSE [code |-> 200, config |-> saved]

\* update_model_config: the response of the route
post_model_config(valid, save_raises, registry_raises, saved) ==
    IF ~valid THEN [code |-> 400]
    ELSE IF save_raises THEN [code |-> 500]
    ELSE [code |-> 200, config |-> saved]

\* the services and models of the requests
RequestNames == {name_crawler}

RequestModels == {model_gpt_4o, model_embedding_3, model_no_provider}

\* a running registry pass that a configuration change overlaps
Touched(r) ==
    IF r.pc = "registering" THEN [r EXCEPT !.undisturbed = FALSE] ELSE r

syncVars == <<store, now, cache, pc, st, moreVars>>

update_model_config(service_name, model_string, save_raises, registry_raises) ==
    /\ InvokeManual
    /\ Fault(save_raises \/ registry_raises, 1)
    /\ LET valid == validate_model_string(model_string)
           saved == [service_name |-> service_name, model_string |-> model_string]
           stored == valid /\ ~save_raises
           res == update_service_metadata(registry, service_name, model_string)
           updated == stored /\ ~registry_raises /\ res.updated
       IN  /\ save_raises => valid
           /\ registry_raises => stored
           /\ configs' = IF stored THEN save_config(configs, service_name, model_string)
                         ELSE configs
           /\ registry' = IF updated THEN res.registry ELSE registry
           /\ rsync' = IF stored THEN Touched(rsync) ELSE rsync
           /\ prev' = [valid |-> TRUE, op |-> "update_model_config",
                       service_name |-> service_name, saved |-> saved,
                       accepted |-> stored,
                       registry_raises |-> registry_raises,
                       registry_updated |-> updated,
                       response |-> post_model_config(valid, save_raises,
                                                      registry_raises, saved)]
    /\ UNCHANGED <<env, syncVars>>

delete_model_config(service_name) ==
    /\ InvokeManual
    /\ Fault(FALSE, 1)
    /\ LET res == delete_config(configs, service_name)
       IN  /\ configs' = res.configs
           /\ rsync' = IF res.deleted THEN Touched(rsync) ELSE rsync
           /\ prev' = [valid |-> TRUE, op |-> "delete_config",
                       service_name |-> service_name, result |-> res.deleted]
    /\ UNCHANGED <<registry, env, syncVars>>

get_model_config(service_name) ==
    /\ InvokeManual
    /\ Fault(FALSE, 1)
    /\ prev' = [valid |-> TRUE, op |-> "get_model_config",
                service_name |-> service_name,
                stored |-> get_config(configs, service_name),
                after_delete |-> /\ Get(prev, "op", "none") = "delete_config"
                                 /\ prev.service_name = service_name,
                result |-> get_model_config_result(configs, service_name)]
    /\ UNCHANGED <<configs, registry, rsync, env, syncVars>>

----------------------------------------------------------------------------
(* One pass of sync_registry_with_model_configs, a step per database call *)

\* the pass returns its report
registry_return(r) ==
    [valid |-> TRUE, op |-> "sync_registry_with_model_configs",
     report |-> registry_report(r.unregistered, r.registered_count),
     unregistered |-> r.unregistered, failed |-> r.failed,
     registered |-> r.registered,
     undisturbed |-> r.undisturbed, after_clean |-> r.after_clean,
     registry0 |-> r.registry0, request |-> r.request]

\* the pass that returned last registered everything it discovered and
\* nothing has changed the configurations since it started
CleanRegistrySync(r) ==
    /\ Get(r, "op", "none") = "sync_registry_with_model_configs"
    /\ r.undisturbed
    /\ r.failed = {}

\* line 391: discover_unregistered_services
registry_discover ==
    /\ rsync.pc \in {"idle", "spawned"}
    /\ IF rsync.pc = "idle" THEN InvokeSync ELSE UNCHANGED <<syncs, manuals>>
    /\ Fault(FALSE, 1)
    /\ LET unregistered == unregistered_services(configs, registry)
           r == [pc |-> "registering", unregistered |-> unregistered,
                 request |-> Get(rsync, "request", NoPrev),
                 todo |-> unregistered, registered_count |-> 0,
                 failed |-> {}, registered |-> {}, undisturbed |-> TRUE,
                 after_clean |-> CleanRegistrySync(prev),
                 registry0 |-> registry]
       IN  IF unregistered = {}
           THEN /\ rsync' = IdleRsync
                /\ prev' = registry_return(r)
           ELSE /\ rsync' = r
                /\ prev' = NoPrev
    /\ UNCHANGED <<configs, registry, env, syncVars>>

\* a loop that stops after its first turn
rest_of_loop_break(todo, service_info) == {}

\* line 394: the services the loop has yet to visit
rest_of_loop(todo, service_info) == todo \ {service_info}

\* a counter that counts attempts
registered_count_of_attempts(registered_count, register_raises) ==
    registered_count + 1

\* lines 445-449: the counter after register_service returned or raised
registered_count_after(registered_count, register_raises) ==
    IF register_raises THEN registered_count ELSE registered_count + 1

\* lines 394-449: one turn of the loop
registry_register(service_info, register_raises) ==
    /\ rsync.pc = "registering"
    /\ service_info \in rsync.todo
    /\ Fault(register_raises, 0)
    /\ registry' = IF register_raises THEN registry
                   ELSE register_service(registry, ServiceRegistration(service_info))
    /\ LET r == [rsync EXCEPT
                    !.todo = rest_of_loop(@, service_info),
                    !.registered_count = registered_count_after(@, register_raises),
                    !.registered = IF register_raises THEN @
                                   ELSE @ \cup {service_info},
                    !.failed = IF register_raises THEN @ \cup {service_info}
                               ELSE @]
       IN  IF r.todo = {}
           THEN /\ rsync' = IdleRsync
                /\ prev' = registry_return(r)
           ELSE /\ rsync' = r
                /\ prev' = NoPrev
    /\ UNCHANGED <<syncs, manuals, configs, env, syncVars>>

\* the configurations a deployment may start with
SeedConfigs ==
    { [service_name |-> name_rag_agent, model_string |-> model_gpt_4o],
      [service_name |-> name_agent_docs, model_string |-> model_gpt_4o],
      [service_name |-> name_embedding_agent, model_string |-> model_embedding_3],
      [service_name |-> name_embeddings, model_string |-> model_gpt_4o],
      [service_name |-> name_crawler, model_string |-> model_embedding_3],
      [service_name |-> name_agents, model_string |-> model_gpt_4o] }

\* every configuration a registry pass can meet
ServiceInfos ==
    SeedConfigs
    \cup { [service_name |-> n, model_string |-> m] :
             n \in RequestNames, m \in RequestModels }

InitRegistry ==
    /\ store = {}
    /\ now = 0
    /\ cache = NoCache
    /\ pc = [p \in Procs |-> "idle"]
    /\ st = [p \in Procs |-> IdleLocals]
    /\ prev = NoPrev
    /\ faults = 0
    /\ syncs = 0
    /\ manuals = 0
    /\ configs \in { c \in SUBSET SeedConfigs : Cardinality(c) <= MaxServices }
    /\ registry = {}
    /\ rsync = IdleRsync
    /\ env = NoEnv
    /\ MoreInit

NextRegistry ==
    \/ \E n \in RequestNames, m \in RequestModels, s, r \in BOOLEAN :
          update_model_config(n, m, s, r)
    \/ \E n \in RequestNames : delete_model_config(n)
    \/ \E n \in RequestNames : get_model_config(n)
    \/ registry_discover
    \/ \E c \in ServiceInfos, raises \in BOOLEAN :
          registry_register(c, raises)

SpecRegistry == InitRegistry /\ [][NextRegistry]_vars

----------------------------------------------------------------------------
(* Queries: should_sync, cost tiers, GET /models/available, GET /services/agents *)

\* the table one full_sync that nothing overlaps leaves when no call raises
FullSyncTable(s, catalog, start_time) ==
    LET models_to_sync == { _convert_provider_model_to_dict(m) : m \in catalog }
        upserted == bulk_sync_models(s, models_to_sync, "openrouter", start_time + 1).store
        swept == deactivate_stale_models(upserted, sweep_source, start_time).store
    IN  bulk_sync_models(swept, local_models, "local", start_time + 2).store

\* tables a deployment may hold when a query arrives
QueryTables == { {} } \cup { FullSyncTable({}, c, 0) : c \in Catalogs }

Hours == 2..MaxHours

\* deployments: the providers with a stored or environment key, and whether
\* the timestamps the database returns carry a UTC offset
Envs ==
    [active_providers : { {}, {"openai"}, {"openai", "anthropic"} },
     utc_offset : BOOLEAN]

Max(S) == CHOOSE x \in S : \A y \in S : y <= x

\* view model_statistics: one row per provider, last_sync the latest
\* last_updated of its rows
model_statistics(s) ==
    [p \in { r.provider : r \in s } |->
        [last_sync |-> Max({ r.last_updated : r \in { x \in s : x.provider = p } })]]

\* get_provider_statistics: an exception is caught and {} returned
get_provider_statistics(s, raises) ==
    IF raises THEN [p \in {} |-> [last_sync |-> 0]] ELSE model_statistics(s)

\* should_sync: no statistics gives True; the loop returns True at the first
\* provider whose last_sync is before the cutoff; comparing a last_sync
\* that carries a UTC offset with the naive cutoff raises TypeError, which
\* the except clause turns into True; otherwise False.  (The view gives
\* every provider a last_sync.)
should_sync(providers, t, max_age_hours, utc_offset) ==
    IF DOMAIN providers = {} THEN TRUE
    ELSE LET cutoff_time == t - max_age_hours
         IN  \E p \in DOMAIN providers :
                \/ utc_offset
                \/ providers[p].last_sync < cutoff_time

should_sync_call(max_age_hours, stats_raises) ==
    /\ rsync.pc = "idle"
    /\ LET providers == get_provider_statistics(store, stats_raises)
       IN  prev' = [valid |-> TRUE, op |-> "should_sync",
                    providers |-> providers, max_age_hours |-> max_age_hours,
                    result |-> should_sync(providers, now, max_age_hours,
                                           env.utc_offset)]
    /\ UNCHANGED <<configs, registry, rsync, env, syncVars, faults, syncs, manuals>>

\* tiers whose upper thresholds belong to the cheaper tier
cost_tier_inclusive(model) ==
    IF model.is_free THEN "free"
    ELSE IF model.input_cost <= 5 THEN "low"
    ELSE IF model.input_cost <= 50 THEN "medium"
    ELSE "high"

\* _convert_provider_model_to_dict, lines 346-354; input_cost is in tenths
\* of a dollar per million tokens
cost_tier(model) ==
    IF model.is_free THEN "free"
    ELSE IF model.input_cost < 5 THEN "low"
    ELSE IF model.input_cost < 50 THEN "medium"
    ELSE "high"

\* the costs of the converted models, in tenths of a dollar
InputCosts == {0, 1, 4, 5, 6, 49, 50, 51}

convert_provider_model(is_free, input_cost) ==
    /\ rsync.pc = "idle"
    /\ LET model == [provider |-> "openai", model_id |-> "gpt-4o",
                     display_name |-> "GPT-4o",
                     is_free |-> is_free, input_cost |-> input_cost]
       IN  prev' = [valid |-> TRUE, op |-> "_convert_provider_model_to_dict",
                    model |-> model,
                    row |-> _convert_provider_model_to_dict(model),
                    cost_tier |-> cost_tier(model)]
    /\ UNCHANGED <<configs, registry, rsync, env, syncVars, faults, syncs, manuals>>

\* APIKeyService.get_active_providers: ollama needs no key
get_active_providers(e) == e.active_providers \cup {"ollama"}

\* get_providers_with_api_keys: the active rows of the given providers
get_providers_with_api_keys(s, api_key_providers) ==
    { r \in s : r.provider \in api_key_providers /\ r.is_active }

\* GET /models/available: both HTTPException(404) are raised inside the try
\* whose only handler is "except Exception", which answers 500
get_available_models_response(active_providers, db_models) ==
    LET raised == active_providers = {} \/ db_models = {}
    IN  IF raised THEN [code |-> 500]
        ELSE [code |-> 200, models |-> { r.model_string : r \in db_models }]

get_available_models ==
    /\ rsync.pc = "idle"
    /\ LET active_providers == get_active_providers(env)
           db_models == get_providers_with_api_keys(store, active_providers)
       IN  prev' = [valid |-> TRUE, op |-> "get_available_models",
                    response |-> get_available_models_response(active_providers,
                                                               db_models)]
    /\ UNCHANGED <<configs, registry, rsync, env, syncVars, faults, syncs, manuals>>

\* get_agents: the registry entries of category agent
get_agents(reg) == { r \in reg : r.category = "agent" }

\* a request that awaits the registry pass before it reads the registry
registry_read_after_sync(reg, cfgs, spawned) ==
    IF spawned
    THEN reg \cup { ServiceRegistration(c) : c \in unregistered_services(cfgs, reg) }
    ELSE reg

\* lines 21-29: the tasks are only created; get_agents reads the registry
\* before either of them has run
registry_read(reg, cfgs, spawned) == reg

\* lines 29-33
get_agents_registry_response(agents) ==
    IF agents = {} THEN [code |-> 404] ELSE [code |-> 200, agents |-> agents]

\* GET /services/agents.  The full_sync task takes slot 1.
get_agents_registry(stats_raises) ==
    /\ rsync.pc = "idle"
    /\ pc[1] = "idle"
    /\ InvokeManual
    /\ Fault(stats_raises, 1)
    /\ LET providers == get_provider_statistics(store, stats_raises)
           spawned == should_sync(providers, now, AGENTS_MAX_AGE_HOURS,
                                  env.utc_offset)
           agents == get_agents(registry_read(registry, configs, spawned))
           response == get_agents_registry_response(agents)
           request == [valid |-> TRUE, response |-> response]
       IN  /\ rsync' = IF spawned THEN [pc |-> "spawned", request |-> request]
                       ELSE rsync
           /\ pc' = IF spawned THEN [pc EXCEPT ![1] = "spawned"] ELSE pc
           /\ prev' = [valid |-> TRUE, op |-> "get_agents_registry",
                       spawned |-> spawned, response |-> response]
    /\ UNCHANGED <<store, now, cache, st, configs, registry, env, moreVars>>

\* the full_sync task a request created runs: it raises at once, or it
\* leaves the table of a pass over the catalog
background_full_sync(catalog, raises) ==
    /\ pc[1] = "spawned"
    /\ Fault(raises, 0)
    /\ store' = IF raises THEN store ELSE FullSyncTable(store, catalog, now)
    /\ now' = IF raises THEN now ELSE now + 2
    /\ pc' = [pc EXCEPT ![1] = "idle"]
    /\ UNCHANGED <<cache, st, prev, syncs, manuals, restVars>>

\* registry entries and configurations a deployment may hold when a query
\* arrives
QueryConfigs ==
    { {},
      { [service_name |-> name_rag_agent, model_string |-> model_gpt_4o] },
      { [service_name |-> name_rag_agent, model_string |-> model_gpt_4o],
        [service_name |-> name_crawler, model_string |-> model_embedding_3] } }

QueryRegistries ==
    { {},
      { ServiceRegistration([service_name |-> name_agent_docs,
                             model_string |-> model_gpt_4o]) },
      { ServiceRegistration([service_name |-> name_embeddings,
                             model_string |-> model_gpt_4o]) } }

InitQuery ==
    /\ store \in QueryTables
    /\ now \in Hours
    /\ cache = NoCache
    /\ pc = [p \in Procs |-> "idle"]
    /\ st = [p \in Procs |-> IdleLocals]
    /\ prev = NoPrev
    /\ faults = 0
    /\ syncs = 0
    /\ manuals = 0
    /\ configs = {}
    /\ registry = {}
    /\ rsync = IdleRsync
    /\ env \in Envs
    /\ MoreInit

NextQuery ==
    \/ \E h \in {1, 2}, raises \in BOOLEAN : should_sync_call(h, raises)
    \/ \E is_free \in BOOLEAN, input_cost \in InputCosts :
          convert_provider_model(is_free, input_cost)
    \/ get_available_models

SpecQuery == InitQuery /\ [][NextQuery]_vars

InitAgents ==
    /\ store \in QueryTables
    /\ now = MaxHours
    /\ cache = NoCache
    /\ pc = [p \in Procs |-> "idle"]
    /\ st = [p \in Procs |-> IdleLocals]
    /\ prev = NoPrev
    /\ faults = 0
    /\ syncs = 0
    /\ manuals = 0
    /\ configs \in QueryConfigs
    /\ registry \in QueryRegistries
    /\ rsync = IdleRsync
    /\ env \in { e \in Envs : e.active_providers = {} }
    /\ MoreInit

NextAgents ==
    \/ \E raises \in BOOLEAN : get_agents_registry(raises)
    \/ \E c \in Catalogs, raises \in BOOLEAN : background_full_sync(c, raises)
    \/ registry_discover
    \/ \E c \in ServiceInfos, raises \in BOOLEAN : registry_register(c, raises)

SpecAgents == InitAgents /\ [][NextAgents]_vars

----------------------------------------------------------------------------
(* ModelSyncService.get_sync_status, a step per read of the table *)

\* get_all_models: the rows read; an exception is caught and [] returned
get_all_models(s, active_only, raises) ==
    IF raises THEN {}
    ELSE IF active_only THEN { r \in s : r.is_active } ELSE s

\* lines 288-294: the counts of the returned status
sync_status(all_models, active_models) ==
    [total_models |-> Cardinality(all_models),
     active_models |-> Cardinality(active_models),
     inactive_models |-> Cardinality(all_models) - Cardinality(active_models)]

\* line 282: get_provider_statistics
status_read_statistics ==
    /\ reader.pc = "idle"
    /\ InvokeManual
    /\ Fault(FALSE, 1)
    /\ reader' = [pc |-> "all", table0 |-> store]
    /\ prev' = NoPrev
    /\ UNCHANGED <<store, now, cache, pc, st>>
    /\ UNCHANGED <<configs, registry, rsync, env, loop, uow, requests>>

\* line 285: get_all_models(active_only=False)
status_read_all(raises) ==
    /\ reader.pc = "all"
    /\ Fault(raises, 0)
    /\ reader' = [reader EXCEPT !.pc = "active"] @@
                 [all_models |-> get_all_models(store, FALSE, raises),
                  raised |-> raises]
    /\ prev' = NoPrev
    /\ UNCHANGED <<store, now, cache, pc, st, syncs, manuals>>
    /\ UNCHANGED <<configs, registry, rsync, env, loop, uow, requests>>

\* lines 286-294: get_all_models(active_only=True) and the returned status
status_read_active(raises) ==
    /\ reader.pc = "active"
    /\ Fault(raises, 0)
    /\ LET active_models == get_all_models(store, TRUE, raises)
       IN  prev' = [valid |-> TRUE, op |-> "get_sync_status",
                    status |-> sync_status(reader.all_models, active_models),
                    raised |-> reader.raised \/ raises,
                    undisturbed |-> store = reader.table0]
    /\ reader' = IdleReader
    /\ UNCHANGED <<store, now, cache, pc, st, syncs, manuals>>
    /\ UNCHANGED <<configs, registry, rsync, env, loop, uow, requests>>

NextStatus ==
    \/ status_read_statistics
    \/ \E x \in BOOLEAN : status_read_all(x)
    \/ \E x \in BOOLEAN : status_read_active(x)
    \/ \E f \in BOOLEAN, c \in Catalogs, x \in BOOLEAN : full_sync_start(1, f, c, x)
    \/ \E x \in BOOLEAN : remote_upsert(1, x)
    \/ \E x \in BOOLEAN : remote_sweep(1, x)
    \/ \E x \in BOOLEAN : local_upsert(1, x)
    \/ \E m \in ManualTargets, x \in BOOLEAN : deactivate_model(m, x)

SpecStatus == Init /\ [][NextStatus]_vars

----------------------------------------------------------------------------
(* Route POST /models/config, a step per write *)

RequestIds == {1, 2}

\* lines 20-25: set_model_config validates and saves; an invalid model
\* string is answered 400 and a failed save 500
request_set_model_config(id, service_name, model_string, save_raises) ==
    /\ \A q \in requests : q.id # id
    /\ \A j \in RequestIds : j < id => \E q \in requests : q.id = j
    /\ InvokeManual
    /\ Fault(save_raises, 1)
    /\ LET valid == validate_model_string(model_string)
           saved == [service_name |-> service_name, model_string |-> model_string]
       IN  /\ save_raises => valid
           /\ IF valid /\ ~save_raises
              THEN /\ configs' = save_config(configs, service_name, model_string)
                   /\ requests' = requests \cup
                          { [id |-> id, saved |-> saved,
                             overlapped |-> requests # {}] }
                   /\ prev' = NoPrev
              ELSE /\ UNCHANGED <<configs, requests>>
                   /\ prev' = [valid |-> TRUE, op |-> "update_model_config",
                               service_name |-> service_name, saved |-> saved,
                               accepted |-> FALSE, registry_raises |-> FALSE,
                               registry_updated |-> FALSE,
                               response |-> post_model_config(valid, save_raises,
                                                              FALSE, saved)]
    /\ UNCHANGED <<registry, rsync, env, store, now, cache, pc, st, loop, uow, reader>>

\* lines 27-35: update_default_model, best effort, and the response
request_update_default_model(q, registry_raises) ==
    /\ q \in requests
    /\ Fault(registry_raises, 0)
    /\ LET res == update_service_metadata(registry, q.saved.service_name,
                                          q.saved.model_string)
           updated == ~registry_raises /\ res.updated
       IN  /\ registry' = IF updated THEN res.registry ELSE registry
           /\ prev' = [valid |-> TRUE, op |-> "update_model_config",
                       service_name |-> q.saved.service_name, saved |-> q.saved,
                       accepted |-> TRUE, registry_raises |-> registry_raises,
                       registry_updated |-> updated,
                       overlapped |-> q.overlapped,
                       response |-> post_model_config(TRUE, FALSE,
                                                      registry_raises, q.saved)]
    /\ requests' = requests \ {q}
    /\ UNCHANGED <<syncs, manuals, configs, rsync, env>>
    /\ UNCHANGED <<store, now, cache, pc, st, loop, uow, reader>>

\* every request that can be under way
Requests ==
    [id : RequestIds,
     saved : [service_name : RequestNames, model_string : RequestModels],
     overlapped : BOOLEAN]

\* deployments in which the service of the requests may be registered
InitRequests ==
    /\ store = {}
    /\ now = 0
    /\ cache = NoCache
    /\ pc = [p \in Procs |-> "idle"]
    /\ st = [p \in Procs |-> IdleLocals]
    /\ prev = NoPrev
    /\ faults = 0
    /\ syncs = 0
    /\ manuals = 0
    /\ configs \in { c \in SUBSET SeedConfigs : Cardinality(c) <= MaxServices }
    /\ registry \in { { ServiceRegistration(c) : c \in configs }, {} }
    /\ rsync = IdleRsync
    /\ env = NoEnv
    /\ MoreInit

NextRequests ==
    \/ \E id \in RequestIds, n \in RequestNames, m \in RequestModels, x \in BOOLEAN :
          request_set_model_config(id, n, m, x)
    \/ \E q \in Requests, x \in BOOLEAN : request_update_default_model(q, x)

SpecRequests == InitRequests /\ [][NextRequests]_vars

----------------------------------------------------------------------------
(* Explicit registration beside the registry pass *)

\* a registration an operator submits for a configured service
ExplicitRegistration(service_info) ==
    [ServiceRegistration(service_info) EXCEPT
        !.category = "service", !.service_type = "backend_service",
        !.owner_team = "platform", !.cost_profile = "high"]

\* ServiceRegistryService.register_service called with an explicit
\* registration
explicit_register_service(service_info) ==
    /\ service_info \in configs
    /\ InvokeManual
    /\ Fault(FALSE, 1)
    /\ registry' = register_service(registry, ExplicitRegistration(service_info))
    /\ rsync' = Touched(rsync)
    /\ prev' = [valid |-> TRUE, op |-> "register_service",
                service_name |-> service_info.service_name]
    /\ UNCHANGED <<configs, env, syncVars>>

NextReconcile ==
    \/ registry_discover
    \/ \E c \in ServiceInfos, raises \in BOOLEAN : registry_register(c, raises)
    \/ \E c \in SeedConfigs : explicit_register_service(c)

SpecReconcile == InitRegistry /\ [][NextReconcile]_vars

----------------------------------------------------------------------------
(* BackgroundModelSync and the global instance _background_sync *)

\* the loop tasks that have not finished
AliveTasks(l) == { t \in 1..Len(l.tasks) : l.tasks[t].state = "alive" }

\* get_background_sync and start_scheduled_sync; neither suspends
start_background_model_sync ==
    /\ InvokeManual
    /\ Fault(FALSE, 1)
    /\ LET insts == IF loop.global = 0
                    THEN Append(loop.insts, [running |-> FALSE, task |-> 0])
                    ELSE loop.insts
           g == IF loop.global = 0 THEN Len(insts) ELSE loop.global
           t == Len(loop.tasks) + 1
       IN  IF insts[g].running
           THEN loop' = [loop EXCEPT !.stopped = FALSE]
           ELSE loop' = [loop EXCEPT
                            !.global = g,
                            !.insts = [insts EXCEPT ![g] = [running |-> TRUE, task |-> t]],
                            !.tasks = Append(@, [inst |-> g, state |-> "alive",
                                                 cancel |-> FALSE, wake_at |-> now]),
                            !.stopped = FALSE]
    /\ prev' = [valid |-> TRUE, op |-> "start_background_model_sync"]
    /\ UNCHANGED <<store, now, cache, pc, st, configs, registry, rsync, env>>
    /\ UNCHANGED <<uow, reader, requests>>

\* stop_background_model_sync up to "await self._sync_task"; without a task
\* to wait for it returns at once
stop_background_model_sync ==
    /\ InvokeManual
    /\ Fault(FALSE, 1)
    /\ IF loop.global = 0
       THEN /\ loop' = [loop EXCEPT !.stopped = TRUE]
            /\ prev' = [valid |-> TRUE, op |-> "stop_background_model_sync"]
       ELSE LET i == loop.global
                t == loop.insts[i].task
            IN  IF t # 0 /\ loop.tasks[t].state = "alive"
                THEN /\ loop' = [loop EXCEPT
                                    !.insts[i].running = FALSE,
                                    !.tasks[t].cancel = TRUE,
                                    !.stops = @ \cup {[inst |-> i, task |-> t]}]
                     /\ prev' = NoPrev
                ELSE /\ loop' = [loop EXCEPT
                                    !.insts[i].running = FALSE,
                                    !.global = 0,
                                    !.stopped = TRUE]
                     /\ prev' = [valid |-> TRUE, op |-> "stop_background_model_sync"]
    /\ UNCHANGED <<store, now, cache, pc, st, configs, registry, rsync, env>>
    /\ UNCHANGED <<uow, reader, requests>>

\* the awaited task has finished: lines 41-44 and 175, _background_sync = None
stop_returns(s) ==
    /\ s \in loop.stops
    /\ loop.tasks[s.task].state = "done"
    /\ loop' = [loop EXCEPT !.stops = @ \ {s}, !.global = 0, !.stopped = TRUE]
    /\ prev' = [valid |-> TRUE, op |-> "stop_background_model_sync"]
    /\ UNCHANGED <<store, now, cache, pc, st, faults, syncs, manuals>>
    /\ UNCHANGED <<configs, registry, rsync, env, uow, reader, requests>>

\* CancelledError reaches the task where it is suspended; lines 58-60
task_cancelled(t) ==
    /\ t \in AliveTasks(loop)
    /\ loop.tasks[t].cancel
    /\ loop' = [loop EXCEPT !.tasks[t].state = "done"]
    /\ prev' = NoPrev
    /\ UNCHANGED <<store, now, cache, pc, st, faults, syncs, manuals>>
    /\ UNCHANGED <<configs, registry, rsync, env, uow, reader, requests>>

\* _perform_sync, lines 68-94: every exception of the attempt is caught and
\* logged, none reaches _sync_loop
perform_sync_raises(failed) == FALSE

\* _sync_loop, lines 51-64: the sleep after an attempt, in hours
sleep_hours(raised) ==
    IF raised THEN RETRY_DELAY_HOURS ELSE _sync_interval_hours

\* one turn of _sync_loop when the task wakes: the while test, _perform_sync
\* (should_sync, then full_sync as one pass over the catalog) and the sleep
loop_iteration(t, catalog, failed) ==
    /\ t \in AliveTasks(loop)
    /\ ~loop.tasks[t].cancel
    /\ InvokeSync
    /\ Fault(failed, 1)
    /\ LET running == loop.insts[loop.tasks[t].inst].running
           wake == IF now < loop.tasks[t].wake_at THEN loop.tasks[t].wake_at ELSE now
           providers == get_provider_statistics(store, FALSE)
           needed == should_sync(providers, wake, _sync_interval_hours, env.utc_offset)
           synced == running /\ ~failed /\ needed
           end == IF synced THEN wake + 2 ELSE wake
           delay == sleep_hours(perform_sync_raises(failed))
       IN  /\ store' = IF synced THEN FullSyncTable(store, catalog, wake) ELSE store
           /\ now' = IF running THEN end ELSE now
           /\ loop' = IF running
                      THEN [loop EXCEPT !.tasks[t].wake_at = end + delay]
                      ELSE [loop EXCEPT !.tasks[t].state = "done"]
           /\ prev' = IF running
                      THEN [valid |-> TRUE, op |-> "_perform_sync",
                            failed |-> failed, synced |-> synced,
                            status |-> IF synced THEN "success" ELSE "none",
                            delay |-> delay]
                      ELSE NoPrev
    /\ UNCHANGED <<cache, pc, st, configs, registry, rsync, env>>
    /\ UNCHANGED <<uow, reader, requests>>

InitLoop ==
    /\ store \in QueryTables
    /\ now = 2
    /\ cache = NoCache
    /\ pc = [p \in Procs |-> "idle"]
    /\ st = [p \in Procs |-> IdleLocals]
    /\ prev = NoPrev
    /\ faults = 0
    /\ syncs = 0
    /\ manuals = 0
    /\ configs = {}
    /\ registry = {}
    /\ rsync = IdleRsync
    /\ env \in { e \in Envs : e.active_providers = {} }
    /\ MoreInit

NextLoop ==
    \/ start_background_model_sync
    \/ stop_background_model_sync
    \/ \E s \in loop.stops : stop_returns(s)
    \/ \E t \in 1..Len(loop.tasks) : task_cancelled(t)
    \/ \E t \in 1..Len(loop.tasks), c \in Catalogs, x \in BOOLEAN :
          loop_iteration(t, c, x)
    \/ should_sync_call(_sync_interval_hours, FALSE)

SpecLoop == InitLoop /\ [][NextLoop]_vars

----------------------------------------------------------------------------
(* SupabaseUnitOfWork, the one instance DependencyContainer hands out *)

\* uow.repositories: model_configs, api_keys and usage are set (not None);
\* uow.inside: the "async with" blocks that are open, <<task, nesting level>>

\* how many "async with uow" blocks task t has open
Depth(u, t) == Cardinality({ x \in u.inside : x[1] = t })

\* __aenter__
uow_aenter(t) ==
    /\ InvokeManual
    /\ Fault(FALSE, 1)
    /\ uow' = [repositories |-> TRUE, _in_transaction |-> TRUE,
               inside |-> uow.inside \cup {<<t, Depth(uow, t) + 1>>}]
    /\ prev' = [valid |-> TRUE, op |-> "__aenter__", task |-> t]
    /\ UNCHANGED <<store, now, cache, pc, st, configs, registry, rsync, env>>
    /\ UNCHANGED <<loop, reader, requests>>

\* a persistence call inside the block, as in set_model_config:
\* self.uow.model_configs.save_config(...); on None the attribute access
\* raises AttributeError
uow_save_config(t, service_name, model_string) ==
    /\ Depth(uow, t) > 0
    /\ configs' = IF uow.repositories
                  THEN save_config(configs, service_name, model_string)
                  ELSE configs
    /\ prev' = [valid |-> TRUE, op |-> "save_config", task |-> t,
                raised |-> ~uow.repositories]
    /\ UNCHANGED <<store, now, cache, pc, st, faults, syncs, manuals>>
    /\ UNCHANGED <<registry, rsync, env, moreVars>>

\* __aexit__: commit or rollback do nothing, then the repositories are
\* cleared whoever else is inside
uow_aexit(t) ==
    /\ Depth(uow, t) > 0
    /\ uow' = [repositories |-> FALSE, _in_transaction |-> FALSE,
               inside |-> uow.inside \ {<<t, Depth(uow, t)>>}]
    /\ prev' = [valid |-> TRUE, op |-> "__aexit__", task |-> t]
    /\ UNCHANGED <<store, now, cache, pc, st, faults, syncs, manuals>>
    /\ UNCHANGED <<configs, registry, rsync, env, loop, reader, requests>>

NextUow ==
    \/ \E t \in Procs : uow_aenter(t)
    \/ \E t \in Procs, n \in RequestNames, m \in {model_gpt_4o, model_embedding_3} :
          uow_save_config(t, n, m)
    \/ \E t \in Procs : uow_aexit(t)

SpecUow == InitRequests /\ [][NextUow]_vars

----------------------------------------------------------------------------
(* Properties *)

\* row r of the table before a step is inactive in table s2 after it
InactiveIn(s2, r) == \E x \in s2 : on_conflict(x, r) /\ ~x.is_active

SweepStep(p) == pc[p] = "r_sweep" /\ pc'[p] = "l_upsert"

Deactivated(p) == Get(st[p].results0, "models_deactivated", 0)

\* C1: a row that the deactivation sweep of a remote pass turns inactive has
\* source openrouter and a last_updated strictly before the start timestamp
\* of that pass, and is not a row that the same pass upserted.
C1_SweepOnlyStaleOfSource ==
    [][\A p \in Procs : SweepStep(p) =>
          \A r \in store : (r.is_active /\ InactiveIn(store', r)) =>
             /\ r.source = "openrouter"
             /\ r.last_updated < st[p].start_time
             /\ ~(st[p].sync_count > 0
                  /\ \E m \in st[p].models_to_sync : on_conflict(r, m))]_vars

\* a sweep has deactivated a stale row and left the rows of its own upsert
\* active
C1_Witness ==
    \E p \in Procs :
       /\ pc[p] = "l_upsert"
       /\ Deactivated(p) > 0
       /\ st[p].sync_count > 0
       /\ \A m \in st[p].models_to_sync :
             \E r \in store : on_conflict(r, m) /\ r.is_active
                              /\ r.last_updated > st[p].start_time

\* C2: no step of a sync pass turns a row whose source is local inactive.
C2_LocalNeverDeactivatedBySync ==
    [][manuals' = manuals =>
          \A r \in store : (r.source = "local" /\ r.is_active) =>
                              ~InactiveIn(store', r)]_vars

\* a remote sweep has deactivated a row while local rows older than its
\* start timestamp stay active
C2_Witness ==
    \E p \in Procs :
       /\ pc[p] = "l_upsert"
       /\ Deactivated(p) > 0
       /\ \E r \in store : /\ r.source = "local" /\ r.is_active
                           /\ r.last_updated < st[p].start_time

\* r records a full_sync that nothing overlapped
SoloSync(r) ==
    r.valid /\ Get(r, "op", "none") = "full_sync" /\ r.hist.mode = "solo"

\* r records a full_sync that nothing overlapped and in which no call raised
CleanSync(r) == SoloSync(r) /\ r.hist.raised = {}

\* the full_sync that returned last, and the one that returned right before
\* it started, both ran alone and without a raising call
TwoCleanSyncs == CleanSync(prev) /\ CleanSync(prev.hist.pred)

Keys(models) == { ModelString(m.provider, m.model_id) : m \in models }

\* C3: when full_sync has run twice in immediate succession, the second time
\* with force_refresh false and over the same catalog, the second report has
\* models_deactivated = 0 and every model active after the first run is
\* active after the second.
C3_SecondSyncDeactivatesNothing ==
    ( /\ TwoCleanSyncs
      /\ ~prev.hist.force_refresh
      /\ prev.models_to_sync = prev.hist.pred.models_to_sync )
    => /\ prev.combined.models_deactivated = 0
       /\ prev.hist.pred.active \subseteq ActiveStrings(store)

\* two such runs have returned, the first having left remote models active
C3_Witness ==
    /\ TwoCleanSyncs
    /\ ~prev.hist.force_refresh
    /\ prev.models_to_sync = prev.hist.pred.models_to_sync
    /\ \E r \in store : r.source = "openrouter" /\ r.is_active
                        /\ r.model_string \in prev.hist.pred.active
    /\ prev.combined.status = "success"

Unique(s) ==
    \A a, b \in s :
       ( (a.provider = b.provider /\ a.model_id = b.model_id)
         \/ a.model_string = b.model_string ) => a = b

\* the rows of table s stored under the key of model m
RowsOf(s, m) == { r \in s : r.provider = m.provider /\ r.model_id = m.model_id }

\* table s holds exactly one row under the key of m, with display_name d
OneRowNamed(s, m, d) ==
    \E r \in RowsOf(s, m) : RowsOf(s, m) = {r} /\ r.display_name = d

\* the model a manual add record is about
AddedModel(r) ==
    CHOOSE m \in { [provider |-> "openai", model_id |-> "gpt-4o"] } :
       ModelString(m.provider, m.model_id) = r.model_string

\* C4: the table never holds two rows with the same (provider, model_id) or
\* the same model_string; after a manual add or a remote upsert of a key the
\* table holds exactly one row under that key, with the display_name given
\* last.
C4_OneRowPerKeyLatestName ==
    [][/\ Unique(store')
       /\ ( prev'.valid /\ Get(prev', "op", "none") = "manually_add_model"
            /\ prev'.result )
          => OneRowNamed(store', AddedModel(prev'), prev'.display_name)
       /\ \A p \in Procs :
             ( pc[p] = "r_upsert" /\ pc'[p] = "r_sweep"
               /\ st'[p].sync_count > 0 )
             => \A m \in st[p].models_to_sync :
                   OneRowNamed(store', m, m.display_name)]_vars

\* a key stored under one display_name has been synced again under another
\* one, and one row carries the later name
C4_Witness ==
    /\ SoloSync(prev) /\ SoloSync(prev.hist.pred)
    /\ \E m \in prev.models_to_sync, m0 \in prev.hist.pred.models_to_sync :
          /\ on_conflict(m, m0)
          /\ m.display_name # m0.display_name
          /\ OneRowNamed(store, m, m.display_name)

\* the calls of the remote sub-sync, and of the local one, that raised
RemoteRaised(r) == r.hist.raised \cap {"fetch", "upsert", "sweep"}

LocalRaised(r) == r.hist.raised \cap {"local"}

\* C5: when a call raised in exactly one of the two sub-syncs of a full_sync,
\* that sub-sync is reported with status error, the other one with status
\* success and its rows are stored, and the combined status is partial.
C5_OneFailureContained ==
    ( SoloSync(prev) /\ (RemoteRaised(prev) = {}) # (LocalRaised(prev) = {}) )
    => /\ prev.combined.status = "partial"
       /\ IF LocalRaised(prev) = {}
          THEN /\ prev.combined.openrouter_result.status = "error"
               /\ prev.combined.local_result.status = "success"
               /\ \A m \in local_models :
                     \E r \in store : on_conflict(r, m) /\ r.is_active
          ELSE /\ prev.combined.local_result.status = "error"
               /\ prev.combined.openrouter_result.status = "success"

\* C7: after deactivate_model(m) or reactivate_model(m) has returned true and
\* the next full_sync has run, the is_active of m is the value set by hand.
C7_ManualFlipSurvivesSync ==
    ( /\ CleanSync(prev)
      /\ prev.hist.pred.valid
      /\ prev.hist.pred.op \in {"deactivate_model", "reactivate_model"}
      /\ prev.hist.pred.result )
    => \E r \in store : /\ r.model_string = prev.hist.pred.model_string
                        /\ r.is_active = prev.hist.pred.is_active

\* C8: when the bulk upsert of the remote sub-sync raised in the store, the
\* sweep of that pass is not reached, and the sub-report has status error,
\* models_synced = 0 and models_deactivated = 0.
C8_UpsertFailureStopsPass ==
    /\ \A p \in Procs :
          ( pc[p] = "r_sweep" /\ st[p].hist.mode = "solo" )
          => "upsert" \notin st[p].hist.raised
    /\ ( SoloSync(prev) /\ "upsert" \in prev.hist.raised )
       => /\ prev.combined.openrouter_result.status = "error"
          /\ prev.combined.openrouter_result.models_synced = 0
          /\ prev.combined.openrouter_result.models_deactivated = 0

\* rows without timestamps, all given timestamp t
Stamp(rows, t) ==
    { [provider |-> r.provider, model_id |-> r.model_id,
       model_string |-> r.model_string, display_name |-> r.display_name,
       source |-> r.source, is_active |-> r.is_active,
       last_updated |-> t] : r \in rows }

\* the table, without timestamps, that one undisturbed full_sync of catalog
\* models leaves when it starts from table base
SingleSync(base, models) ==
    LET s0 == Stamp(base, 0)
        s1 == bulk_sync_models(s0, models, "openrouter", 2).store
        s2 == deactivate_stale_models(s1, "openrouter", 1).store
        s3 == bulk_sync_models(s2, local_models, "local", 3).store
    IN  Abs(s3)

\* the second of two overlapping full_sync invocations has just returned;
\* nothing else ran meanwhile, no call raised, both synced the same catalog
PairDone ==
    /\ prev.valid /\ Get(prev, "op", "none") = "full_sync"
    /\ prev.hist.mode = "pair" /\ prev.hist.partner.valid
    /\ prev.hist.raised = {} /\ prev.hist.partner.raised = {}
    /\ prev.models_to_sync = prev.hist.partner.models_to_sync

\* invocation p is one of two overlapping invocations over the same catalog
\* in which no call has raised so far
InCleanPair(p) ==
    /\ st[p].hist.mode = "pair" /\ st[p].hist.raised = {}
    /\ \/ /\ st[p].hist.partner.valid
          /\ st[p].hist.partner.raised = {}
          /\ st[p].hist.partner.models_to_sync = st[p].models_to_sync
       \/ \E q \in Procs \ {p} :
             /\ Running(q) /\ st[q].hist.mode = "pair"
             /\ st[q].hist.raised = {}
             /\ st[q].models_to_sync = st[p].models_to_sync

CatalogShrunk ==
    /\ TwoCleanSyncs
    /\ prev.hist.force_refresh /\ prev.hist.pred.hist.force_refresh
    /\ prev.hist.pred.combined.status = "success"
    /\ prev.hist.pred.combined.total_models_synced
          = Cardinality(prev.hist.pred.models_to_sync) + 4
    /\ prev.hist.pred.combined.models_deactivated = 0
    /\ prev.models_to_sync \subseteq prev.hist.pred.models_to_sync

\* the models of C1 that are not in C2
Removed == Keys(prev.hist.pred.models_to_sync) \ Keys(prev.models_to_sync)

\* the models active after the first run and inactive after the second
TurnedInactive == prev.hist.pred.active \ ActiveStrings(store)

IsSuccess(r) == "exception" \notin DOMAIN r /\ Get(r, "status", "none") = "success"

\* C10: the combined report of full_sync has status success exactly when the
\* remote sub-report and the local sub-report both have status success.
C10_SuccessIffBothSucceed ==
    ( prev.valid /\ Get(prev, "op", "none") = "full_sync" )
    => ( prev.combined.status = "success"
         <=> (IsSuccess(prev.results[1]) /\ IsSuccess(prev.results[2])) )

\* a combined report has been returned for one successful and one failed
\* sub-sync
C10_Witness ==
    /\ prev.valid /\ Get(prev, "op", "none") = "full_sync"
    /\ IsSuccess(prev.results[1]) # IsSuccess(prev.results[2])
    /\ prev.combined.status = "partial"


----------------------------------------------------------------------------
(* Properties of the service registry and the model configurations *)

RegistrySyncReturned == Get(prev, "op", "none") = "sync_registry_with_model_configs"

\* the configured services that had no registry entry when the pass that
\* returned last started, provided nothing changed the configurations since
Unregistered0 == { c \in configs : get_service(prev.registry0, c.service_name) = {} }

\* C11: a pass over N configured services without a registry entry, none of
\* whose registrations fails, reports services_discovered = N and
\* services_registered = N and leaves each of them with exactly one registry
\* entry; the pass that immediately follows reports services_discovered = 0.
C11_SyncRegistersAllOnce ==
    CleanRegistrySync(prev) =>
        /\ prev.report.services_discovered = Cardinality(Unregistered0)
        /\ prev.report.services_registered = Cardinality(Unregistered0)
        /\ \A c \in Unregistered0 :
              Cardinality(get_service(registry, c.service_name)) = 1
        /\ prev.after_clean => prev.report.services_discovered = 0

C11_Witness ==
    /\ CleanRegistrySync(prev)
    /\ prev.after_clean
    /\ Cardinality(registry) = 2

\* the discovered services that have a registry entry now
NowRegistered ==
    { c \in prev.unregistered : get_service(registry, c.service_name) # {} }

\* C12: when the registration of a discovered service raises, the pass still
\* attempts every other discovered service and registers those that do not
\* fail; it returns status success, and services_registered is the number
\* of services it registered, at most services_discovered.
C12_FailedRegistrationIsSkipped ==
    RegistrySyncReturned =>
        /\ prev.report.status = "success"
        /\ prev.registered \cup prev.failed = prev.unregistered
        /\ prev.registered \cap prev.failed = {}
        /\ NowRegistered = prev.registered
        /\ prev.report.services_registered = Cardinality(NowRegistered)
        /\ prev.report.services_registered <= prev.report.services_discovered

C12_Witness ==
    /\ RegistrySyncReturned
    /\ Cardinality(prev.failed) = 1
    /\ Cardinality(NowRegistered) = 1
    /\ prev.report.services_discovered = 2

\* the registry entry of a service
EntryOf(reg, service_name) == CHOOSE r \in reg : r.service_name = service_name

NamedAgent(service_name) ==
    \/ endswith(service_name, text_agent_suffix)
    \/ startswith(service_name, text_agent_prefix)

MentionsEmbedding(c) ==
    \/ contains(c.service_name, text_embedding)
    \/ contains(c.model_string, text_embedding)

\* the classification the precedence rule gives service c
Classified(r, c) ==
    IF NamedAgent(c.service_name)
    THEN /\ r.category = "agent"
         /\ r.model_type = "llm"
         /\ r.supports_temperature /\ r.supports_max_tokens
    ELSE IF MentionsEmbedding(c)
    THEN /\ r.category = "service"
         /\ r.service_type = "embedding_service"
         /\ r.model_type = "embedding"
         /\ ~r.supports_temperature /\ ~r.supports_max_tokens
    ELSE /\ r.category = "service"
         /\ r.service_type = "backend_service"
         /\ r.model_type = "llm"
         /\ r.supports_temperature /\ r.supports_max_tokens

\* the step registers service c
Registers(c) ==
    /\ rsync.pc = "registering"
    /\ c \in rsync.todo
    /\ get_service(registry', c.service_name) # {}

\* C13: the entry a pass registers for a service is classified by
\* precedence: an agent name (ends with _agent or starts with agent_) gives
\* category agent, model_type llm, temperature and max_tokens supported,
\* even if embedding occurs in the name or the model; otherwise embedding in
\* the name or the model string gives an embedding_service with model_type
\* embedding and neither supported; otherwise a backend_service with
\* model_type llm and both supported.  Every such entry has default_model =
\* model_string, owner_team auto-discovered and cost_profile medium.
C13_ClassificationPrecedence ==
    [][\A c \in ServiceInfos :
          Registers(c) =>
              LET r == EntryOf(registry', c.service_name)
              IN  /\ Classified(r, c)
                  /\ r.default_model = c.model_string
                  /\ r.owner_team = "auto-discovered"
                  /\ r.cost_profile = "medium"]_vars

\* embedding_agent, configured with an embedding model, is registered as an
\* agent beside a service that is an embedding service by its model alone
C13_Witness ==
    /\ get_service(registry, name_embedding_agent) # {}
    /\ EntryOf(registry, name_embedding_agent).category = "agent"
    /\ EntryOf(registry, name_embedding_agent).default_model = model_embedding_3
    /\ get_service(registry, name_crawler) # {}
    /\ EntryOf(registry, name_crawler).service_type = "embedding_service"

ConfigSaved ==
    /\ Get(prev, "op", "none") = "update_model_config"
    /\ prev.accepted

\* C14: when the registry update behind update_model_config raises or
\* returns false, the request still returns the saved configuration and the
\* configuration stays stored.
C14_RegistryFailureDoesNotFailUpdate ==
    (ConfigSaved /\ ~prev.registry_updated) =>
        /\ prev.response.code = 200
        /\ prev.response.config = prev.saved
        /\ prev.saved \in configs

\* the registry update raised for a service that has a registry entry
C14_Witness ==
    /\ ConfigSaved
    /\ prev.registry_raises
    /\ get_service(registry, prev.service_name) # {}
    /\ prev.response.code = 200

\* C20: get_model_config raises ValueError when no configuration is stored
\* for the service, also right after delete_config removed it; it never
\* returns a configuration for a service that has none stored.
C20_MissingConfigRaises ==
    (Get(prev, "op", "none") = "get_model_config" /\ prev.stored = {}) =>
        prev.result.raised = "ValueError"

\* the step is a deactivate_model or reactivate_model call
Flips ==
    /\ manuals' = manuals + 1
    /\ Get(prev', "op", "none") \in {"deactivate_model", "reactivate_model"}

Known(model_string) == \E r \in store : r.model_string = model_string

\* C17: deactivate_model and reactivate_model called with a model_string
\* that is not in the table return false and leave the table as it is; the
\* activate route answers the false of reactivate_model with 404.
C17_UnknownModelFlipIsRefused ==
    [][(Flips /\ ~Known(prev'.model_string)) =>
          /\ prev'.result = FALSE
          /\ store' = store
          /\ prev'.op = "reactivate_model" => prev'.response.code = 404]_vars

\* reactivate_model was called for a model that a table with other rows
\* does not hold
C17_Witness ==
    /\ Get(prev, "op", "none") = "reactivate_model"
    /\ ~Known(prev.model_string)
    /\ store # {}
    /\ ~prev.result
    /\ prev.response.code = 404

----------------------------------------------------------------------------
(* Properties of the queries *)

\* the step is a request GET /services/agents
AgentsRequest ==
    /\ manuals' = manuals + 1
    /\ Get(prev', "op", "none") = "get_agents_registry"

\* the pass that returned last was created by a request
SpawnedPassReturned == RegistrySyncReturned /\ prev.request.valid

\* C15: when should_sync is true, GET /services/agents creates the
\* synchronisation tasks and answers without waiting for them: at the
\* response neither task has run and no table has changed, and the response
\* is the one the registry of the request gives, whether the background
\* pass later registers services, fails or never runs.
C15_AgentsRequestDoesNotWaitForSync ==
    /\ [][AgentsRequest =>
             /\ prev'.response = get_agents_registry_response(get_agents(registry))
             /\ registry' = registry /\ store' = store
             /\ prev'.spawned => (rsync'.pc = "spawned" /\ pc'[1] = "spawned")]_vars
    /\ [](SpawnedPassReturned =>
             prev.request.response =
                 get_agents_registry_response(get_agents(prev.registry0)))

\* a request answered 404 and the pass it created registered an agent
C15_Witness ==
    /\ SpawnedPassReturned
    /\ prev.request.response.code = 404
    /\ prev.failed = {}
    /\ get_agents(registry) # {}

ShouldSyncReturned == Get(prev, "op", "none") = "should_sync"

\* some provider's last_sync is before now - max_age_hours
SomeStale ==
    \E p \in DOMAIN prev.providers :
        prev.providers[p].last_sync < now - prev.max_age_hours

\* C16: should_sync(max_age_hours) is true if there are no provider
\* statistics or some provider's last_sync is older than now -
\* max_age_hours, and false when every provider has a last_sync that is not
\* older than that cutoff.
C16_ShouldSyncIffStale ==
    ShouldSyncReturned =>
        (prev.result <=> (DOMAIN prev.providers = {} \/ SomeStale))

AvailableModelsReturned == Get(prev, "op", "none") = "get_available_models"

\* the active stored models of the providers with active credentials
ModelsOfActiveProviders ==
    { r \in store : r.provider \in get_active_providers(env) /\ r.is_active }

\* C18: GET /models/available returns the active models of the providers
\* with active credentials, and answers 404 when there is no provider with
\* active credentials or no such stored model.
C18_AvailableModelsOr404 ==
    AvailableModelsReturned =>
        IF env.active_providers = {} \/ ModelsOfActiveProviders = {}
        THEN prev.response.code = 404
        ELSE /\ prev.response.code = 200
             /\ prev.response.models =
                    { r.model_string : r \in ModelsOfActiveProviders }

Converted == Get(prev, "op", "none") = "_convert_provider_model_to_dict"

\* C19: the cost tier of a converted model is free when is_free; otherwise
\* low when input_cost < 0.5 (also for a cost of 0), medium when
\* 0.5 <= input_cost < 5, and high when input_cost >= 5 (costs in tenths).
C19_CostTierThresholds ==
    Converted =>
        LET free == prev.model.is_free
            cost == prev.model.input_cost
        IN  /\ free => prev.cost_tier = "free"
            /\ (~free /\ cost < 5) => prev.cost_tier = "low"
            /\ (~free /\ 5 <= cost /\ cost < 50) => prev.cost_tier = "medium"
            /\ (~free /\ cost >= 50) => prev.cost_tier = "high"

\* a model that is not free and costs exactly half a dollar
C19_Witness ==
    /\ Converted
    /\ ~prev.model.is_free
    /\ prev.model.input_cost = 5
    /\ prev.cost_tier = "medium"

----------------------------------------------------------------------------
(* Further properties of the synchronisation passes *)

\* the step is the bulk upsert of the remote pass of invocation p
UpsertStep(p) == pc[p] = "r_upsert" /\ pc'[p] = "r_sweep"

\* the step is the last one of invocation p, after which full_sync returns
ReturnStep(p) == pc[p] = "l_upsert" /\ pc'[p] = "idle"

\* C22: a remote pass whose bulk upsert persisted nothing for a non-empty
\* catalog deactivates no model that was active before the pass: its sweep
\* turns no active row inactive.
C22_NoSweepAfterEmptyUpsert ==
    [][\A p \in Procs :
          (SweepStep(p) /\ st[p].models_to_sync # {} /\ st[p].sync_count = 0) =>
              \A r \in store : r.is_active => ~InactiveIn(store', r)]_vars

\* the model strings of the active rows of the remote source
ActiveRemote(s) ==
    { r.model_string : r \in { x \in s : x.source = "openrouter" /\ x.is_active } }

\* the model strings a catalog leaves to the remote source once the local
\* pass has taken the fixed local models
RemoteStrings(models) ==
    { m.model_string : m \in models } \ { m.model_string : m \in local_models }

\* invocation p returns as the second of two overlapping invocations that
\* synced different catalogs; no call of either raised and nothing else ran
SecondOfTwoReturns(p) ==
    /\ ReturnStep(p)
    /\ st[p].hist.mode = "pair" /\ st[p].hist.partner.valid
    /\ st[p].hist.raised = {} /\ st[p].hist.partner.raised = {}
    /\ prev'.hist.raised = {}
    /\ st[p].models_to_sync # st[p].hist.partner.models_to_sync

\* the catalog of the invocation that started last: the second slot is only
\* taken while the first is running
LatestCatalog(p) ==
    IF p = 2 THEN st[p].models_to_sync ELSE st[p].hist.partner.models_to_sync

\* C23: when two passes that fetched different catalogs overlap, in any
\* interleaving, once both have returned the active models of the remote
\* source are those of the catalog of the pass that started last.
C23_LastStartedCatalogWins ==
    [][\A p \in Procs :
          SecondOfTwoReturns(p) =>
              ActiveRemote(store') = RemoteStrings(LatestCatalog(p))]_vars

\* C24: the bulk upsert of the remote source leaves the source of every
\* existing row whose source is local or manual as it is, also when the
\* catalog lists the same (provider, model_id).
C24_RemoteUpsertKeepsSource ==
    [][\A p \in Procs :
          UpsertStep(p) =>
              \A r \in store :
                 r.source \in {"local", "manual"} =>
                    \E x \in store' : on_conflict(x, r) /\ x.source = r.source]_vars

----------------------------------------------------------------------------
(* Properties of get_sync_status *)

\* C25: the counts get_sync_status returns satisfy 0 <= active_models <=
\* total_models and inactive_models >= 0, also when a sync pass inserts or
\* flips rows between its reads of the table.
C25_StatusCountsConsistent ==
    Get(prev, "op", "none") = "get_sync_status" =>
        /\ 0 <= prev.status.active_models
        /\ prev.status.active_models <= prev.status.total_models
        /\ prev.status.inactive_models >= 0

----------------------------------------------------------------------------
(* Properties of concurrent requests and registrations *)

\* no request is under way and the one that returned last was accepted for
\* a registered service
RequestsCompleted ==
    /\ requests = {}
    /\ Get(prev, "op", "none") = "update_model_config"
    /\ prev.accepted
    /\ get_service(registry, prev.service_name) # {}

\* C27: however concurrent update_model_config requests for the same
\* registered service interleave, once all of them have completed the
\* default_model of the registry entry equals the model_string stored in
\* the configuration of the service.
C27_RegistryFollowsConfig ==
    RequestsCompleted =>
        \A c \in get_config(configs, prev.service_name) :
            EntryOf(registry, prev.service_name).default_model = c.model_string

\* the step is a register call of the registry pass that changes the registry
ReconcilerRegisters ==
    /\ rsync.pc = "registering"
    /\ manuals' = manuals
    /\ registry' # registry

\* C28: the registry pass only creates entries for services that have none:
\* a register call of the pass leaves every entry that was registered
\* explicitly as it is, also when the explicit registration came between
\* the query for unregistered services and the register call.
C28_ReconcilerKeepsExplicitEntries ==
    [][ReconcilerRegisters =>
          \A r \in registry : r.owner_team = "platform" => r \in registry']_vars

----------------------------------------------------------------------------
(* Properties of the background loop *)

AttemptReturned == Get(prev, "op", "none") = "_perform_sync"

\* C21: when a scheduled sync attempt of the loop fails with an exception,
\* the loop waits the 1-hour retry delay before its next attempt, not the
\* 24-hour interval.
C21_FailedAttemptRetriesAfterOneHour ==
    (AttemptReturned /\ prev.failed) => prev.delay = RETRY_DELAY_HOURS

\* the step is a should_sync(24) call made right after a full_sync that
\* reported success
ShouldSyncAfterSuccess ==
    /\ AttemptReturned /\ prev.synced /\ prev.status = "success"
    /\ Get(prev', "op", "none") = "should_sync"
    /\ prev'.max_age_hours = _sync_interval_hours

\* C26: immediately after a full_sync that reports success, should_sync(24)
\* returns false whatever the table held before.
C26_FreshAfterSuccessfulSync ==
    [][ShouldSyncAfterSuccess => ~prev'.result]_vars

\* C29: however start_background_model_sync and stop_background_model_sync
\* interleave, at most one loop task is alive at any time, and once a stop
\* has returned with no later start no loop task is alive.
C29_SingleLoopTask ==
    /\ Cardinality(AliveTasks(loop)) <= 1
    /\ loop.stopped => AliveTasks(loop) = {}

----------------------------------------------------------------------------
(* Properties of the shared unit of work *)

\* C30: while a task is inside "async with uow", the repository attributes
\* stay set as long as that task itself neither enters nor exits, also when
\* another task that shares the instance enters or exits in between.
C30_RepositoriesStayWhileInside ==
    [][\A t \in Procs :
          (Depth(uow, t) > 0 /\ uow.repositories /\ Depth(uow', t) = Depth(uow, t))
              => uow'.repositories]_vars

====
